---- MODULE Spec2Model ----
(***************************************************************************)
(* Model of dash_nba_style_evolution.py: the memoized season fetcher, the  *)
(* aggregation loop of main(), the start-up check of the __main__ block    *)
(* and the dashboard's query handlers.                                     *)
(*                                                                         *)
(* Strings that the program builds or converts (season identifiers, column *)
(* names) are sequences of one-character strings, so that formatting,      *)
(* slicing, lower-casing and lexicographic sorting are computed.           *)
(***************************************************************************)
EXTENDS Integers, Sequences, FiniteSets, TLC

(* ------------------------------ constants ------------------------------ *)

\* range(2024, 1989, -1): first year, and the exclusive stop of the range
StartYear == 2024
StopYear == 1989
\* @cache.memoize(expire=3600)
TTL == 3600
\* time.sleep(2)
SleepSecs == 2

(* ------------------------------- bounds -------------------------------- *)

\* the provider holds rows only for the first MaxDataSeasons requested seasons
MaxDataSeasons == 2
\* number of times the script is started (the cache directory outlives a run)
MaxRuns == 2

(* ------------------------------- strings ------------------------------- *)

Digits == <<"0", "1", "2", "3", "4", "5", "6", "7", "8", "9">>

DigitChar(d) == Digits[d + 1]

RECURSIVE Str(_)
\* str(n) for a non-negative integer
Str(n) == IF n < 10 THEN <<DigitChar(n)>>
          ELSE Str(n \div 10) \o <<DigitChar(n % 10)>>

\* s[k:] of a Python string (k counted from 0)
SliceFrom(s, k) == SubSeq(s, k + 1, Len(s))

\* variant: the second part written as the number (year+1) % 100, unpadded
SeasonOfUnpadded(year) == Str(year) \o <<"-">> \o Str((year + 1) % 100)

\* f"{year}-{str(year+1)[2:]}"
SeasonOf(year) == Str(year) \o <<"-">> \o SliceFrom(Str(year + 1), 2)

UpperAlpha == <<"A", "B", "C", "D", "E", "F", "G", "H", "I", "J", "K", "L", "M",
                "N", "O", "P", "Q", "R", "S", "T", "U", "V", "W", "X", "Y", "Z">>
LowerAlpha == <<"a", "b", "c", "d", "e", "f", "g", "h", "i", "j", "k", "l", "m",
                "n", "o", "p", "q", "r", "s", "t", "u", "v", "w", "x", "y", "z">>

LowerChar(c) == IF \E i \in 1..26 : UpperAlpha[i] = c
                THEN LowerAlpha[CHOOSE i \in 1..26 : UpperAlpha[i] = c]
                ELSE c

\* col.lower()
Lower(s) == [i \in 1..Len(s) |-> LowerChar(s[i])]

\* code points order the characters that occur in season identifiers
CharCode(c) == IF c = "-" THEN 45
               ELSE 48 + (CHOOSE d \in 0..9 : Digits[d + 1] = c)

RECURSIVE StrLess(_, _)
\* a < b for Python strings (lexicographic by code point)
StrLess(a, b) ==
    IF Len(b) = 0 THEN FALSE
    ELSE IF Len(a) = 0 THEN TRUE
    ELSE IF a[1] = b[1] THEN StrLess(Tail(a), Tail(b))
    ELSE CharCode(a[1]) < CharCode(b[1])

(* ---------------------------- data frames ------------------------------ *)

\* column labels as the provider sends them
TEAM_NAME == <<"T", "E", "A", "M", "_", "N", "A", "M", "E">>
GP == <<"G", "P">>
PTS == <<"P", "T", "S">>
FG3M == <<"F", "G", "3", "M">>
FG3A == <<"F", "G", "3", "A">>
ProviderColumns == <<TEAM_NAME, GP, PTS, FG3M, FG3A>>

\* column labels as the program reads them
team_name == <<"t", "e", "a", "m", "_", "n", "a", "m", "e">>
gp == <<"g", "p">>
pts == <<"p", "t", "s">>
fg3m == <<"f", "g", "3", "m">>
fg3a == <<"f", "g", "3", "a">>
season_col == <<"s", "e", "a", "s", "o", "n">>

\* pd.DataFrame(): no columns, no rows
EmptyFrame == [columns |-> <<>>, index |-> <<>>, rows |-> <<>>]

\* a frame with a RangeIndex over the given rows
Frame(cols, rws) == [columns |-> cols,
                     index |-> [i \in 1..Len(rws) |-> i - 1],
                     rows |-> rws]

\* df.empty: some axis has length 0
IsEmpty(df) == Len(df.index) = 0 \/ Len(df.columns) = 0

HasColumn(df, c) == \E j \in 1..Len(df.columns) : df.columns[j] = c

ColPos(df, c) == CHOOSE j \in 1..Len(df.columns) : df.columns[j] = c

\* df.columns = [col.lower() for col in df.columns]
LowerColumns(df) ==
    [df EXCEPT !.columns = [j \in 1..Len(df.columns) |-> Lower(df.columns[j])]]

\* df[c] = v with a scalar v: overwrite the column, or add it as the last one
SetColumn(df, c, v) ==
    IF HasColumn(df, c)
    THEN [df EXCEPT !.rows = [i \in 1..Len(df.rows) |->
                                [df.rows[i] EXCEPT ![ColPos(df, c)] = v]]]
    ELSE [df EXCEPT !.columns = Append(df.columns, c),
                    !.rows = [i \in 1..Len(df.rows) |-> Append(df.rows[i], v)]]

RECURSIVE FlatRows(_)
FlatRows(frames) == IF frames = <<>> THEN <<>>
                    ELSE Head(frames).rows \o FlatRows(Tail(frames))

RECURSIVE FlatIndex(_)
FlatIndex(frames) == IF frames = <<>> THEN <<>>
                     ELSE Head(frames).index \o FlatIndex(Tail(frames))

\* variant: pd.concat(frames) without ignore_index, the frames keep their labels
ConcatKeepIndex(frames) ==
    [columns |-> Head(frames).columns,
     index |-> FlatIndex(frames),
     rows |-> FlatRows(frames)]

\* pd.concat(frames, ignore_index=True) of frames that share one column layout
Concat(frames) ==
    [columns |-> Head(frames).columns,
     index |-> [i \in 1..Len(FlatRows(frames)) |-> i - 1],
     rows |-> FlatRows(frames)]

\* the name is bound to None (never the case in this program)
None == [none |-> TRUE]

(* ------------------------ the statistics provider ---------------------- *)

\* rows in the provider's column order: TEAM_NAME, GP, PTS, FG3M, FG3A
RowBOS == <<"BOS", 2, 164, 10, 20>>
RowLAL == <<"LAL", 3, 240, 12, 30>>
RowNYK == <<"NYK", 4, 300, 8, 36>>

ProviderTables == {Frame(ProviderColumns, <<RowBOS, RowLAL>>),
                   Frame(ProviderColumns, <<RowNYK>>)}

\* a response is a frame (ok) or a raised exception: network error, provider
\* error, or a malformed payload that makes get_data_frames()[0] raise
Failure == [ok |-> FALSE, frame |-> EmptyFrame]
Success(f) == [ok |-> TRUE, frame |-> f]

\* what LeagueDashTeamStats(season=...) may answer for the i-th requested
\* season: for the seasons the provider holds, an error or a frame with rows;
\* for the others a frame without rows
ProviderResponses(i) ==
    IF i <= MaxDataSeasons
    THEN {Failure} \cup {Success(f) : f \in ProviderTables}
    ELSE {Success(Frame(ProviderColumns, <<>>))}

\* gaps between the end of one run of the script and the start of the next
\* (a full run lasts RunLength seconds, so the last two put the second fetch of
\* a season just inside and just outside the expiry of its entry)
RunLength == (StartYear - StopYear) * SleepSecs
RestartGaps == {0, TTL - RunLength - 1, TTL - RunLength}

(* -------------------------------- state -------------------------------- *)

VARIABLES
    pc,             \* position of the script
    run,            \* number of the current run of the script
    now,            \* time.time(), in seconds
    storage,        \* the ./cache directory store during this run: "ok",
                    \* "unavailable" (it cannot be opened) or "failing" (it
                    \* opens, and its operations raise)
    cache,          \* diskcache entries: season -> [value, expire_time]
    year,           \* loop variable of the generation loop
    seasons,        \* main(): seasons
    idx,            \* the next item of "for season in seasons" (from 1)
    team_stats,     \* main(): team_stats
    all_team_stats, \* main(): all_team_stats
    combined_df,    \* the global: <<>> while the name is unbound, else <<value>>
    printed,        \* diagnostics printed by this run
    exc,            \* the exception that ended this run, "" if none
    figure,         \* what the last query handler returned
    providerCalls,  \* season -> number of provider calls, over all runs
    lastCall,       \* season -> [time, ok, value]: the latest provider call
                    \* for it and what fetch_nba_team_stats returned then
    last_fetch,     \* the latest return of fetch_nba_team_stats in this run
    results,        \* what fetch_nba_team_stats returned in this run, in order
    fetches,        \* returns of fetch_nba_team_stats in this run
    sleeps          \* time.sleep(2) calls of this run

vars == <<pc, run, now, storage, cache, year, seasons, idx, team_stats,
          all_team_stats, combined_df, printed, exc, figure, providerCalls,
          lastCall, last_fetch, results, fetches, sleeps>>

StorageStates == {"ok", "unavailable", "failing"}

NoFetch == [season |-> <<>>, hit |-> FALSE, resp |-> Failure, returned |-> EmptyFrame]
NoFigure == [kind |-> "none", data |-> <<>>]

Init ==
    /\ pc = "load"
    /\ run = 1
    /\ now = 0
    /\ storage \in StorageStates
    /\ cache = <<>>
    /\ year = StartYear
    /\ seasons = <<>>
    /\ idx = 1
    /\ team_stats = EmptyFrame
    /\ all_team_stats = <<>>
    /\ combined_df = <<>>
    /\ printed = {}
    /\ exc = ""
    /\ figure = NoFigure
    /\ providerCalls = <<>>
    /\ lastCall = <<>>
    /\ last_fetch = NoFetch
    /\ results = <<>>
    /\ fetches = 0
    /\ sleeps = 0

\* an uncaught exception ends the run
Raise(e) ==
    /\ pc' = "crashed"
    /\ exc' = e

(* ------------------------- module load and main() ---------------------- *)

\* cache = diskcache.Cache("./cache"), then main() is entered
Load ==
    /\ pc = "load"
    /\ IF storage = "unavailable"
       THEN /\ Raise("StorageError")
            /\ UNCHANGED <<year, seasons>>
       ELSE /\ pc' = "gen"
            /\ year' = StartYear
            /\ seasons' = <<>>
            /\ exc' = exc
    /\ UNCHANGED <<run, now, storage, cache, idx, team_stats, all_team_stats,
                   combined_df, printed, figure, providerCalls, lastCall,
                   last_fetch, results, fetches, sleeps>>

\* for year in range(2024, 1989, -1): seasons.append(...)
GenStep ==
    /\ pc = "gen"
    /\ year > StopYear
    /\ seasons' = Append(seasons, SeasonOf(year))
    /\ year' = year - 1
    /\ UNCHANGED <<pc, run, now, storage, cache, idx, team_stats,
                   all_team_stats, combined_df, printed, exc, figure,
                   providerCalls, lastCall, last_fetch, results, fetches, sleeps>>

\* the range is exhausted: all_team_stats = [] and the aggregation loop starts
GenDone ==
    /\ pc = "gen"
    /\ ~(year > StopYear)
    /\ pc' = "loop"
    /\ idx' = 1
    /\ all_team_stats' = <<>>
    /\ UNCHANGED <<run, now, storage, cache, year, seasons, team_stats,
                   combined_df, printed, exc, figure, providerCalls, lastCall,
                   last_fetch, results, fetches, sleeps>>

(* ------------------------- fetch_nba_team_stats ------------------------ *)

\* variant: the column labels are left as the provider sent them
FetchBodyNoRename(resp) == IF resp.ok THEN resp.frame ELSE EmptyFrame

\* the body of fetch_nba_team_stats for one answer of the provider: the
\* frame with lower-cased column labels, or pd.DataFrame() in the except branch
FetchBody(resp) == IF resp.ok THEN LowerColumns(resp.frame) ELSE EmptyFrame

\* variant: entries live for a minute instead of an hour
CacheHitMinute(s) == s \in DOMAIN cache /\ cache[s].expire_time - TTL + 60 > now

\* diskcache's lookup: the entry exists and its expire_time is in the future
CacheHit(s) == s \in DOMAIN cache /\ cache[s].expire_time > now

\* variant: an empty result is not stored
CacheStoreNonEmpty(s, v) ==
    IF Len(v.index) = 0 THEN cache
    ELSE (s :> [value |-> v, expire_time |-> now + TTL]) @@ cache

\* memoize stores every returned value under the key with expire = TTL
CacheStore(s, v) == (s :> [value |-> v, expire_time |-> now + TTL]) @@ cache

Count(f, s) == IF s \in DOMAIN f THEN f[s] ELSE 0

\* variant: the sleep is inside the if, an empty result goes on at once
CollectSleepInIf(ts) ==
    /\ IF ~IsEmpty(ts)
       THEN /\ team_stats' = SetColumn(ts, season_col, seasons[idx])
            /\ all_team_stats' = Append(all_team_stats, team_stats')
            /\ pc' = "sleep"
       ELSE /\ team_stats' = ts
            /\ all_team_stats' = all_team_stats
            /\ pc' = "loop"
    /\ idx' = idx + 1
    /\ results' = Append(results, ts)
    /\ fetches' = fetches + 1

\* variant: every frame is stamped with the first season of the list
CollectFirstSeason(ts) ==
    /\ IF ~IsEmpty(ts)
       THEN /\ team_stats' = SetColumn(ts, season_col, seasons[1])
            /\ all_team_stats' = Append(all_team_stats, team_stats')
       ELSE /\ team_stats' = ts
            /\ all_team_stats' = all_team_stats
    /\ idx' = idx + 1
    /\ results' = Append(results, ts)
    /\ fetches' = fetches + 1
    /\ pc' = "sleep"

\* the loop body up to the sleep, for the frame ts that the fetch of
\* season = seasons[idx] returned; the sleep follows in either branch
Collect(ts) ==
    /\ IF ~IsEmpty(ts)
       THEN /\ team_stats' = SetColumn(ts, season_col, seasons[idx])
            /\ all_team_stats' = Append(all_team_stats, team_stats')
       ELSE /\ team_stats' = ts
            /\ all_team_stats' = all_team_stats
    /\ idx' = idx + 1
    /\ results' = Append(results, ts)
    /\ fetches' = fetches + 1
    /\ pc' = "sleep"

\* variant: the loop is left once the seasons the provider holds are done
LoopDoneEarly == idx > MaxDataSeasons

\* "for season in seasons" has no further item
LoopDone == idx > Len(seasons)

\* the memoizing wrapper cannot reach its store: the exception leaves
\* fetch_nba_team_stats (the try block is inside the wrapped body) and main()
FetchStorageError ==
    /\ pc = "loop"
    /\ ~LoopDone
    /\ storage = "failing"
    /\ Raise("StorageError")
    /\ UNCHANGED <<run, now, storage, cache, year, seasons, idx, team_stats,
                   all_team_stats, combined_df, printed, figure, providerCalls,
                   lastCall, last_fetch, results, fetches, sleeps>>

\* a live entry: the stored value is returned, the body does not run
FetchHit ==
    /\ pc = "loop"
    /\ ~LoopDone
    /\ storage = "ok"
    /\ CacheHit(seasons[idx])
    /\ last_fetch' = [season |-> seasons[idx], hit |-> TRUE, resp |-> Failure,
                      returned |-> cache[seasons[idx]].value]
    /\ Collect(cache[seasons[idx]].value)
    /\ UNCHANGED <<run, now, storage, cache, year, seasons, combined_df,
                   printed, exc, figure, providerCalls, lastCall, sleeps>>

\* no live entry: the body calls the provider and its result is stored
FetchMiss ==
    /\ pc = "loop"
    /\ ~LoopDone
    /\ storage = "ok"
    /\ ~CacheHit(seasons[idx])
    /\ \E resp \in ProviderResponses(idx) :
         /\ providerCalls' = (seasons[idx] :> Count(providerCalls, seasons[idx]) + 1)
                             @@ providerCalls
         /\ lastCall' = (seasons[idx] :> [time |-> now, ok |-> resp.ok,
                                          value |-> FetchBody(resp)]) @@ lastCall
         /\ printed' = IF resp.ok THEN printed ELSE printed \cup {"Error fetching data"}
         /\ cache' = CacheStore(seasons[idx], FetchBody(resp))
         /\ last_fetch' = [season |-> seasons[idx], hit |-> FALSE, resp |-> resp,
                           returned |-> FetchBody(resp)]
         /\ Collect(FetchBody(resp))
    /\ UNCHANGED <<run, now, storage, year, seasons, combined_df, exc,
                   figure, sleeps>>

\* time.sleep(2), then back to the head of the loop
Sleep ==
    /\ pc = "sleep"
    /\ now' = now + SleepSecs
    /\ sleeps' = sleeps + 1
    /\ pc' = "loop"
    /\ UNCHANGED <<run, storage, cache, year, seasons, idx, team_stats,
                   all_team_stats, combined_df, printed, exc, figure,
                   providerCalls, lastCall, last_fetch, results, fetches>>

\* lines 63-69: combine the collected frames, or report that there are none
Combine ==
    /\ pc = "loop"
    /\ LoopDone
    /\ IF all_team_stats /= <<>>
       THEN /\ combined_df' = <<Concat(all_team_stats)>>
            /\ printed' = printed \cup {"Successfully fetched data"}
       ELSE /\ combined_df' = combined_df
            /\ printed' = printed \cup {"No data fetched."}
    /\ pc' = "check"
    /\ UNCHANGED <<run, now, storage, cache, year, seasons, idx, team_stats,
                   all_team_stats, exc, figure, providerCalls, lastCall,
                   last_fetch, results, fetches, sleeps>>

\* line 75, if combined_df is not None: reading an unbound global raises
\* NameError; a bound one starts the dashboard unless it is None
StartupCheck ==
    /\ pc = "check"
    /\ IF combined_df = <<>>
       THEN /\ Raise("NameError")
            /\ printed' = printed
       ELSE IF combined_df[1] /= None
       THEN /\ pc' = "serving"
            /\ exc' = exc
            /\ printed' = printed
       ELSE /\ pc' = "done"
            /\ exc' = exc
            /\ printed' = printed \cup {"No data available to create dashboard"}
    /\ UNCHANGED <<run, now, storage, cache, year, seasons, idx, team_stats,
                   all_team_stats, combined_df, figure, providerCalls, lastCall,
                   last_fetch, results, fetches, sleeps>>

(* --------------------------- query handlers ---------------------------- *)

RECURSIVE GCD(_, _)
GCD(a, b) == IF b = 0 THEN a ELSE GCD(b, a % b)

\* a / b on non-negative numbers, kept exact as a reduced fraction; with
\* b = 0 the float result is nan (0/0) or inf (a/0)
Div(a, b) == IF b = 0 THEN [num |-> IF a = 0 THEN 0 ELSE 1, den |-> 0]
             ELSE [num |-> a \div GCD(a, b), den |-> b \div GCD(a, b)]

RECURSIVE Sum(_)
\* Series.sum()
Sum(xs) == IF xs = <<>> THEN 0 ELSE Head(xs) + Sum(Tail(xs))

RECURSIVE SelectPos(_, _, _)
\* the positions i..Len(df.rows) of the rows whose season is sel, in order
SelectPos(df, sel, i) ==
    IF i > Len(df.rows) THEN <<>>
    ELSE (IF df.rows[i][ColPos(df, season_col)] = sel THEN <<i>> ELSE <<>>)
         \o SelectPos(df, sel, i + 1)

\* df[df['season'] == sel]: the matching rows keep their index labels
FilterSeason(df, sel) ==
    LET ps == SelectPos(df, sel, 1)
    IN  [columns |-> df.columns,
         index |-> [k \in 1..Len(ps) |-> df.index[ps[k]]],
         rows |-> [k \in 1..Len(ps) |-> df.rows[ps[k]]]]

\* df[c] as the sequence of its values
Column(df, c) == [i \in 1..Len(df.rows) |-> df.rows[i][ColPos(df, c)]]

RECURSIVE RowsLabelled(_, _, _)
\* positions i..Len(df.rows) of the rows whose index label is l
RowsLabelled(df, l, i) ==
    IF i > Len(df.rows) THEN <<>>
    ELSE (IF df.index[i] = l THEN <<i>> ELSE <<>>) \o RowsLabelled(df, l, i + 1)

RECURSIVE Loc(_, _, _)
\* df.loc[labels, c]: for each label in turn, every row that carries it
Loc(df, labels, c) ==
    IF labels = <<>> THEN <<>>
    ELSE LET ps == RowsLabelled(df, Head(labels), 1)
         IN  [k \in 1..Len(ps) |-> df.rows[ps[k]][ColPos(df, c)]]
             \o Loc(df, Tail(labels), c)

RECURSIVE Unique(_)
\* Series.unique(): the values in order of first appearance
Unique(xs) ==
    IF xs = <<>> THEN <<>>
    ELSE LET r == Unique(SubSeq(xs, 1, Len(xs) - 1))
         IN  IF \E k \in 1..Len(r) : r[k] = xs[Len(xs)] THEN r
             ELSE Append(r, xs[Len(xs)])

RECURSIVE Insert(_, _)
\* insert the season s after the entries that are not greater than it
Insert(sorted, s) ==
    IF sorted = <<>> THEN <<s>>
    ELSE IF StrLess(s, Head(sorted)) THEN <<s>> \o sorted
    ELSE <<Head(sorted)>> \o Insert(Tail(sorted), s)

RECURSIVE SortSeasons(_)
\* ascending (stable) sort of season strings
SortSeasons(xs) == IF xs = <<>> THEN <<>>
                   ELSE Insert(SortSeasons(SubSeq(xs, 1, Len(xs) - 1)), xs[Len(xs)])

\* options of the season dropdown: combined_df['season'].unique()
DropdownOptions(df) == Unique(Column(df, season_col))

\* the bar chart data of update_points_graph / update_threes_graph: one bar
\* per row of the selected season, x = team_name, y = df[c] / df['gp']
PerGameBars(df, sel, c) ==
    LET f == FilterSeason(df, sel)
    IN  [i \in 1..Len(f.rows) |->
            [x |-> f.rows[i][ColPos(f, team_name)],
             y |-> Div(f.rows[i][ColPos(f, c)], f.rows[i][ColPos(f, gp)])]]

\* season_avg of update_threes_trend: groupby('season') over the sorted group
\* keys, the lambda x.sum() / combined_df.loc[x.index, 'gp'].sum() on the
\* fg3a values of each group, then sort_values('season')
SeasonAvg(df) ==
    LET keys == SortSeasons(Unique(Column(df, season_col)))
        grouped == [k \in 1..Len(keys) |->
                      LET x == FilterSeason(df, keys[k])
                      IN  [season |-> keys[k],
                           fg3a_per_g |-> Div(Sum(Column(x, fg3a)),
                                              Sum(Loc(df, x.index, gp)))]]
        order == SortSeasons([k \in 1..Len(grouped) |-> grouped[k].season])
    IN  [k \in 1..Len(order) |->
            grouped[CHOOSE j \in 1..Len(grouped) : grouped[j].season = order[k]]]

\* combined_df.to_csv(index=False): a header line with the column labels and
\* one line per row, without the index
ToCsv(df) == <<df.columns>> \o df.rows

\* update_points_graph(selected_season)
UpdatePointsGraph ==
    /\ pc = "serving"
    /\ \E sel \in {DropdownOptions(combined_df[1])[k] :
                     k \in 1..Len(DropdownOptions(combined_df[1]))} :
         figure' = [kind |-> "points", data |-> PerGameBars(combined_df[1], sel, pts)]
    /\ UNCHANGED <<pc, run, now, storage, cache, year, seasons, idx, team_stats,
                   all_team_stats, combined_df, printed, exc, providerCalls,
                   lastCall, last_fetch, results, fetches, sleeps>>

\* update_threes_graph(selected_season)
UpdateThreesGraph ==
    /\ pc = "serving"
    /\ \E sel \in {DropdownOptions(combined_df[1])[k] :
                     k \in 1..Len(DropdownOptions(combined_df[1]))} :
         figure' = [kind |-> "threes", data |-> PerGameBars(combined_df[1], sel, fg3m)]
    /\ UNCHANGED <<pc, run, now, storage, cache, year, seasons, idx, team_stats,
                   all_team_stats, combined_df, printed, exc, providerCalls,
                   lastCall, last_fetch, results, fetches, sleeps>>

\* update_threes_trend(selected_season): the selection is not used
UpdateThreesTrend ==
    /\ pc = "serving"
    /\ figure' = [kind |-> "trend", data |-> SeasonAvg(combined_df[1])]
    /\ UNCHANGED <<pc, run, now, storage, cache, year, seasons, idx, team_stats,
                   all_team_stats, combined_df, printed, exc, providerCalls,
                   lastCall, last_fetch, results, fetches, sleeps>>

\* export_data(n_clicks): the download when n_clicks is truthy, else None
ExportData ==
    /\ pc = "serving"
    /\ \E n_clicks \in 0..1 :
         figure' = IF n_clicks /= 0
                   THEN [kind |-> "csv", data |-> ToCsv(combined_df[1])]
                   ELSE NoFigure
    /\ UNCHANGED <<pc, run, now, storage, cache, year, seasons, idx, team_stats,
                   all_team_stats, combined_df, printed, exc, providerCalls,
                   lastCall, last_fetch, results, fetches, sleeps>>

(* ----------------------------- environment ----------------------------- *)

\* the script has ended (or its server is stopped) and is started again
\* later; only the cache directory survives
Restart ==
    /\ pc \in {"crashed", "done", "serving"}
    /\ run < MaxRuns
    /\ run' = run + 1
    /\ \E gap \in RestartGaps : now' = now + gap
    /\ storage' \in StorageStates
    /\ pc' = "load"
    /\ year' = StartYear
    /\ seasons' = <<>>
    /\ idx' = 1
    /\ team_stats' = EmptyFrame
    /\ all_team_stats' = <<>>
    /\ combined_df' = <<>>
    /\ printed' = {}
    /\ exc' = ""
    /\ figure' = NoFigure
    /\ last_fetch' = NoFetch
    /\ results' = <<>>
    /\ fetches' = 0
    /\ sleeps' = 0
    /\ UNCHANGED <<cache, providerCalls, lastCall>>

Next ==
    \/ Load
    \/ GenStep
    \/ GenDone
    \/ FetchStorageError
    \/ FetchHit
    \/ FetchMiss
    \/ Sleep
    \/ Combine
    \/ StartupCheck
    \/ UpdatePointsGraph
    \/ UpdateThreesGraph
    \/ UpdateThreesTrend
    \/ ExportData
    \/ Restart

Spec == Init /\ [][Next]_vars

(* ------------------------------ properties ----------------------------- *)

DigitVal(c) == CHOOSE d \in 0..9 : Digits[d + 1] = c

\* the year that the first four characters of a season identifier spell
YearOf(s) == 1000 * DigitVal(s[1]) + 100 * DigitVal(s[2])
             + 10 * DigitVal(s[3]) + DigitVal(s[4])

\* the run is past the aggregation loop
AfterLoop == pc \in {"check", "serving", "done"} \/ (pc = "crashed" /\ exc = "NameError")

RECURSIVE TotalRows(_)
TotalRows(frames) == IF frames = <<>> THEN 0
                     ELSE Len(Head(frames).rows) + TotalRows(Tail(frames))

RECURSIVE ExpectedRows(_, _)
\* the rows of the per-season results, each with its season as a last field
ExpectedRows(res, ss) ==
    IF res = <<>> THEN <<>>
    ELSE [i \in 1..Len(Head(res).rows) |-> Append(Head(res).rows[i], Head(ss))]
         \o ExpectedRows(Tail(res), Tail(ss))

RECURSIVE SumWhere(_, _, _, _)
\* the sum of field c over the rows whose field k equals s
SumWhere(rws, k, s, c) ==
    IF rws = <<>> THEN 0
    ELSE (IF Head(rws)[k] = s THEN Head(rws)[c] ELSE 0) + SumWhere(Tail(rws), k, s, c)

\* C1: when every season of the sequence gave an empty result, the run ends
\* in the no-data outcome: the diagnostic is printed, the server is not
\* started and no exception is raised.
C1_NoDataOutcome ==
    (/\ pc \in {"crashed", "done", "serving"}
     /\ Len(seasons) > 0
     /\ fetches = Len(seasons)
     /\ all_team_stats = <<>>)
    => (/\ pc = "done"
        /\ exc = ""
        /\ "No data fetched." \in printed)

\* C2: a call of fetch_nba_team_stats(s) made less than 3600 s after the
\* provider was last called for s does not call the provider again, and if it
\* returns, it returns the value of that earlier call.
C2_SecondCallWithinTTL ==
    [][(/\ pc = "loop"
        /\ ~LoopDone
        /\ seasons[idx] \in DOMAIN lastCall
        /\ now - lastCall[seasons[idx]].time < 3600)
       => (/\ providerCalls' = providerCalls
           /\ (pc' = "sleep"
               => last_fetch'.returned = lastCall[seasons[idx]].value))]_vars

C2_Witness ==
    /\ pc = "sleep"
    /\ run = 2
    /\ last_fetch.hit
    /\ now - lastCall[last_fetch.season].time = 3599
    /\ providerCalls[last_fetch.season] = 1
    /\ Len(last_fetch.returned.rows) = 2

\* C3: a provider call that fails makes fetch_nba_team_stats return a frame
\* without rows, and the run goes on; a provider call that succeeds makes it
\* return the provider's rows under the lower-cased column labels.
C3_FetchResult ==
    (pc = "sleep" /\ ~last_fetch.hit)
    => IF last_fetch.resp.ok
       THEN /\ last_fetch.returned.rows = last_fetch.resp.frame.rows
            /\ last_fetch.returned.columns = <<team_name, gp, pts, fg3m, fg3a>>
       ELSE /\ last_fetch.returned.rows = <<>>
            /\ exc = ""

C3_Witness ==
    /\ pc = "sleep"
    /\ ~last_fetch.hit
    /\ ~last_fetch.resp.ok
    /\ "Error fetching data" \in printed
    /\ Len(all_team_stats) = 1

\* C4: after the loop every season has been fetched, and if some result had
\* rows the combined table holds exactly the rows of the results, each with
\* the season it was fetched for; empty results contribute nothing.
C4_CombinedRows ==
    (pc \in {"check", "serving"})
    => /\ Len(results) = Len(seasons)
       /\ (\E i \in 1..Len(results) : ~IsEmpty(results[i]))
          => /\ combined_df /= <<>>
             /\ combined_df[1].rows = ExpectedRows(results, seasons)
             /\ Len(combined_df[1].rows) = TotalRows(results)
             /\ combined_df[1].columns = <<team_name, gp, pts, fg3m, fg3a, season_col>>

C4_Witness ==
    /\ pc = "serving"
    /\ IsEmpty(results[1])
    /\ Len(results[2].rows) = 1
    /\ Len(combined_df[1].rows) = 1
    /\ combined_df[1].rows[1][6] = <<"2", "0", "2", "3", "-", "2", "4">>

\* C5: once the generation loop has run through its range, the sequence has
\* one identifier per year from 2024 down to 1990, strictly descending, each "YYYY-YY" with YY the two digits of
\* (year+1) mod 100; it starts with "2024-25" and ends with "1990-91".
C5_SeasonSequence ==
    (year <= StopYear)
    => /\ Len(seasons) = 2024 - 1990 + 1
       /\ \A i \in 1..Len(seasons) :
            /\ Len(seasons[i]) = 7
            /\ YearOf(seasons[i]) = 2024 - (i - 1)
            /\ seasons[i][5] = "-"
            /\ seasons[i][6] = DigitChar(((YearOf(seasons[i]) + 1) % 100) \div 10)
            /\ seasons[i][7] = DigitChar((YearOf(seasons[i]) + 1) % 10)
       /\ \A i \in 1..Len(seasons) - 1 :
            YearOf(seasons[i]) > YearOf(seasons[i + 1])
       /\ seasons[1] = <<"2", "0", "2", "4", "-", "2", "5">>
       /\ seasons[Len(seasons)] = <<"1", "9", "9", "0", "-", "9", "1">>

C5_Witness ==
    /\ pc = "loop"
    /\ \E i \in 1..Len(seasons) : seasons[i] = <<"1", "9", "9", "9", "-", "0", "0">>

\* C6: the server serves, and a query handler has run, only after the loop
\* has fetched every season of the sequence and the combined table has been
\* assigned from all collected frames.
C6_ServeAfterBuild ==
    (pc = "serving" \/ figure.kind /= "none")
    => /\ pc = "serving"
       /\ combined_df /= <<>>
       /\ Len(seasons) = StartYear - StopYear
       /\ fetches = Len(seasons)
       /\ Len(combined_df[1].rows) = TotalRows(results)

C6_Witness ==
    /\ pc = "serving"
    /\ figure.kind = "csv"
    /\ Len(figure.data) = 4

\* C7: when the cache store is unavailable or its operations raise, the run
\* does not end with the storage error.
C7_StorageErrorTolerated == exc /= "StorageError"

\* C8: the trend has exactly one point per season of the combined table, its
\* value is that season's sum of fg3a divided by that season's sum of gp, and
\* the points are in ascending season order.
C8_TrendPoints ==
    (figure.kind = "trend")
    => LET df == combined_df[1]
           k == ColPos(df, season_col)
           present == {df.rows[i][k] : i \in 1..Len(df.rows)}
           avg == figure.data
       IN  /\ Len(avg) = Cardinality(present)
           /\ \A s \in present :
                \E n \in 1..Len(avg) :
                   /\ avg[n].season = s
                   /\ avg[n].fg3a_per_g =
                        Div(SumWhere(df.rows, k, s, ColPos(df, fg3a)),
                            SumWhere(df.rows, k, s, ColPos(df, gp)))
           /\ \A n, m \in 1..Len(avg) :
                n < m => YearOf(avg[n].season) < YearOf(avg[m].season)

C8_Witness ==
    /\ figure.kind = "trend"
    /\ Len(figure.data) = 2
    /\ figure.data[1].fg3a_per_g = [num |-> 9, den |-> 1]
    /\ figure.data[2].fg3a_per_g = [num |-> 10, den |-> 1]

\* C9: in a run the fetches and the sleeps alternate: a fetch returns only
\* when every earlier fetch has been followed by its sleep, it is the fetch of
\* the next season of the sequence, each sleep lasts 2 seconds, and past the
\* loop there have been as many sleeps as seasons.
C9_FetchSleepAlternate ==
    /\ [](pc = "loop" => sleeps = fetches)
    /\ [](pc = "sleep" => sleeps + 1 = fetches)
    /\ [](AfterLoop => (sleeps = Len(seasons) /\ fetches = Len(seasons)))
    /\ [][fetches' = fetches + 1
          => (sleeps = fetches /\ last_fetch'.season = seasons[fetches + 1])]_vars
    /\ [][sleeps' = sleeps + 1 => now' = now + 2]_vars

C9_Witness ==
    /\ pc = "check"
    /\ run = 2
    /\ last_fetch.hit
    /\ sleeps = 35
    /\ all_team_stats = <<>>

\* C10: while less than 3600 s have passed since a provider call for s
\* failed, a call of fetch_nba_team_stats(s), in the same or a later run, does
\* not call the provider, and if it returns, it returns the empty frame and
\* the season adds nothing to the collected frames.
C10_FailureCached ==
    [][(/\ pc = "loop"
        /\ ~LoopDone
        /\ seasons[idx] \in DOMAIN lastCall
        /\ ~lastCall[seasons[idx]].ok
        /\ now - lastCall[seasons[idx]].time < 3600)
       => (/\ providerCalls' = providerCalls
           /\ (pc' = "sleep"
               => /\ last_fetch'.returned = EmptyFrame
                  /\ all_team_stats' = all_team_stats))]_vars

C10_Witness ==
    /\ pc = "serving"
    /\ run = 2
    /\ ~lastCall[seasons[1]].ok
    /\ now - lastCall[seasons[1]].time >= 3599
    /\ providerCalls[seasons[1]] = 1
    /\ \A i \in 1..Len(combined_df[1].rows) : combined_df[1].rows[i][6] /= seasons[1]

====
